---- MODULE Spec2Model ----
(***************************************************************************)
(* A model of ircbot.py: the case-folded dictionary IRCDict, the per-      *)
(* channel record Channel and the event handlers and reconnect logic of    *)
(* SingleServerIRCBot.                                                     *)
(*                                                                         *)
(* Identifiers (nicknames, channel names) are sequences of character       *)
(* codes, so that irc_lower is computed character by character.  A Python  *)
(* dict is a function whose DOMAIN is the set of its keys (dict equality   *)
(* in Python does not look at insertion order).  An operation that can     *)
(* raise KeyError returns a record with the state it leaves behind and an  *)
(* err flag; the caller stops at the first err, as the exception does.     *)
(***************************************************************************)
EXTENDS Integers, Sequences, FiniteSets, TLC

VARIABLES
    d,          \* SpecDict: one IRCDict under test
    ch,         \* SpecChan: one Channel under test
    last,       \* the last operation: [op, args, err, rep]
    nops,       \* number of operations performed so far
    channels,   \* Spec: self.channels, an IRCDict of Channels
    server_list,            \* self.server_list
    reconnection_interval,  \* self.reconnection_interval
    connected,  \* self.connection.is_connected()
    delayed,    \* the delays of the pending execute_delayed(_connected_checker)
    started,    \* start() has been called
    calls       \* the calls the last operation made on the connection, in order

vars == <<d, ch, last, nops, channels, server_list, reconnection_interval,
          connected, delayed, started, calls>>

botvars == <<channels, server_list, reconnection_interval, connected, delayed,
             started, calls>>

(***************************************************************************)
(* Bounds and input universes                                              *)
(***************************************************************************)
MaxDictOps == 5
MaxChanOps == 4
MaxEvents == 4
MaxDelayed == 2
MaxSessionEvents == 2

\* reconnection_interval as the constructor defaults it
DefaultInterval == 60

\* "ab", "Ab", "aB", "[", "{", "b": classes of three, two and one spellings
DictKeys == {<<97, 98>>, <<65, 98>>, <<97, 66>>, <<91>>, <<123>>, <<98>>}
DictItems == {1, 2}

\* "ab", "Ab", "aB", "b"
ChanNicks == {<<97, 98>>, <<65, 98>>, <<97, 66>>, <<98>>}

\* The bot's own nick "m", as c.get_nickname() returns it
BotNick == <<109>>

\* "m", "M", "a", "A"
Nicks == {<<109>>, <<77>>, <<97>>, <<65>>}

\* "#t", "#T", "#u"
ChannelNames == {<<35, 116>>, <<35, 84>>, <<35, 117>>}

\* The source of an event sent by nick: "nick!u@h"
Source(nick) == nick \o <<33, 117, 64, 104>>

\* The server_list given to the constructor: (server, port) or (server, port, password)
Servers == << <<"irc1", 6667>>, <<"irc2", 6667, "secret">>, <<"irc3", 6697>> >>

\* The msg argument of jump_server: its default and another one
QuitMessages == {"Changing servers", "Bye"}

\* Python's None, as a mode argument
None == <<>>

\* (letter, argument) pairs given to set_mode and clear_mode; <<53>> is "5"
ChanModes ==
    {<<"o", n>> : n \in ChanNicks} \cup {<<"v", n>> : n \in ChanNicks}
        \cup {<<"l", <<53>>>>, <<"l", None>>, <<"m", None>>}

\* Decoded mode lines of mode events, as parse_channel_modes returns them
ModeLines ==
    { << <<"+", "o", <<97>>>> >>,
      << <<"-", "o", <<65>>>> >>,
      << <<"+", "v", <<65>>>> >>,
      << <<"+", "o", <<97>>>>, <<"-", "o", <<97>>>> >>,
      << <<"-", "v", <<97>>>>, <<"+", "v", <<97>>>> >>,
      << <<"+", "l", <<53>>>>, <<"+", "m", None>> >>,
      << <<"-", "l", None>> >> }

\* Nick lists of namreply events, split into tokens: "ab Ab aB", "@a", "a",
\* "+A", "A a", "@a +A m", "+a @A"
NamesLines ==
    { << <<97, 98>>, <<65, 98>>, <<97, 66>> >>,
      << <<64, 97>> >>,
      << <<97>> >>,
      << <<43, 65>> >>,
      << <<65>>, <<97>> >>,
      << <<64, 97>>, <<43, 65>>, <<109>> >>,
      << <<43, 97>>, <<64, 65>> >> }

(***************************************************************************)
(* irclib.irc_lower: A-Z and [ \ ] ^ map to a-z and { | } ~                *)
(***************************************************************************)
irc_lower(key) ==
    [i \in DOMAIN key |-> IF key[i] \in 65..94 THEN key[i] + 32 ELSE key[i]]

(***************************************************************************)
(* Python dict primitives                                                  *)
(***************************************************************************)
EmptyMap == [k \in {} |-> 0]

MapDel(f, k) == [x \in (DOMAIN f) \ {k} |-> f[x]]

MapPut(f, k, v) == [x \in (DOMAIN f) \cup {k} |-> IF x = k THEN v ELSE f[x]]

(***************************************************************************)
(* class IRCDict                                                           *)
(***************************************************************************)
IRCDict_init == [data |-> EmptyMap, canon_keys |-> EmptyMap]

IRCDict_len(self) == Cardinality(DOMAIN self.data)

IRCDict_keys(self) == DOMAIN self.data

IRCDict_contains(self, key) == key \in DOMAIN self.data

\* __getitem__: self.data[self.canon_keys[irc_lower(key)]]
IRCDict_getitem(self, key) ==
    LET ck == irc_lower(key) IN
    IF ck \notin DOMAIN self.canon_keys
    THEN [err |-> TRUE, val |-> 0]
    ELSE IF self.canon_keys[ck] \notin DOMAIN self.data
         THEN [err |-> TRUE, val |-> 0]
         ELSE [err |-> FALSE, val |-> self.data[self.canon_keys[ck]]]

\* __delitem__: both lookups happen before the first deletion
IRCDict_delitem(self, key) ==
    LET ck == irc_lower(key) IN
    IF ck \notin DOMAIN self.canon_keys
    THEN [self |-> self, err |-> TRUE]
    ELSE IF self.canon_keys[ck] \notin DOMAIN self.data
         THEN [self |-> self, err |-> TRUE]
         ELSE [self |-> [data |-> MapDel(self.data, self.canon_keys[ck]),
                         canon_keys |-> MapDel(self.canon_keys, ck)],
               err |-> FALSE]

\* __setitem__: if key in self: del self[key]; then store under the new spelling
IRCDict_setitem(self, key, item) ==
    LET r == IF IRCDict_contains(self, key)
             THEN IRCDict_delitem(self, key)
             ELSE [self |-> self, err |-> FALSE]
    IN IF r.err
       THEN r
       ELSE [self |-> [data |-> MapPut(r.self.data, key, item),
                       canon_keys |-> MapPut(r.self.canon_keys, irc_lower(key), key)],
             err |-> FALSE]

IRCDict_has_key(self, key) == irc_lower(key) \in DOMAIN self.canon_keys

(***************************************************************************)
(* class Channel                                                           *)
(***************************************************************************)
Channel_init ==
    [userdict |-> IRCDict_init, operdict |-> IRCDict_init,
     voiceddict |-> IRCDict_init, modes |-> EmptyMap]

Channel_has_user(self, nick) == IRCDict_contains(self.userdict, nick)

Channel_is_oper(self, nick) == IRCDict_contains(self.operdict, nick)

Channel_is_voiced(self, nick) == IRCDict_contains(self.voiceddict, nick)

Channel_users(self) == IRCDict_keys(self.userdict)

Channel_opers(self) == IRCDict_keys(self.operdict)

Channel_voiced(self) == IRCDict_keys(self.voiceddict)

\* add_user: self.userdict[nick] = 1
Channel_add_user(self, nick) ==
    LET r == IRCDict_setitem(self.userdict, nick, 1) IN
    [self |-> [self EXCEPT !.userdict = r.self], err |-> r.err]

\* One round of remove_user's loop: if nick in d: del d[nick]
RemoveIfIn(dict, nick) ==
    IF IRCDict_contains(dict, nick)
    THEN IRCDict_delitem(dict, nick)
    ELSE [self |-> dict, err |-> FALSE]

\* remove_user: for d in userdict, operdict, voiceddict, in this order
Channel_remove_user(self, nick) ==
    LET r1 == RemoveIfIn(self.userdict, nick)
        s1 == [self EXCEPT !.userdict = r1.self]
        r2 == RemoveIfIn(self.operdict, nick)
        s2 == [s1 EXCEPT !.operdict = r2.self]
        r3 == RemoveIfIn(self.voiceddict, nick)
        s3 == [s2 EXCEPT !.voiceddict = r3.self]
    IN IF r1.err THEN [self |-> self, err |-> TRUE]
       ELSE IF r2.err THEN [self |-> s1, err |-> TRUE]
       ELSE IF r3.err THEN [self |-> s2, err |-> TRUE]
       ELSE [self |-> s3, err |-> FALSE]

\* dict[after] = 1; del dict[before]: the state is kept up to the statement that raises
SetThenDel(dict, before, after) ==
    LET r1 == IRCDict_setitem(dict, after, 1) IN
    IF r1.err THEN r1 ELSE IRCDict_delitem(r1.self, before)

\* change_nick: userdict unconditionally, operdict and voiceddict if before is in them
Channel_change_nick(self, before, after) ==
    LET r1 == SetThenDel(self.userdict, before, after)
        s1 == [self EXCEPT !.userdict = r1.self]
        r2 == IF IRCDict_contains(self.operdict, before)
              THEN SetThenDel(self.operdict, before, after)
              ELSE [self |-> self.operdict, err |-> FALSE]
        s2 == [s1 EXCEPT !.operdict = r2.self]
        r3 == IF IRCDict_contains(self.voiceddict, before)
              THEN SetThenDel(self.voiceddict, before, after)
              ELSE [self |-> self.voiceddict, err |-> FALSE]
        s3 == [s2 EXCEPT !.voiceddict = r3.self]
    IN IF r1.err THEN [self |-> s1, err |-> TRUE]
       ELSE IF r2.err THEN [self |-> s2, err |-> TRUE]
       ELSE IF r3.err THEN [self |-> s3, err |-> TRUE]
       ELSE [self |-> s3, err |-> FALSE]

\* set_mode: "o" and "v" go to operdict and voiceddict, any other letter to modes
Channel_set_mode(self, mode, value) ==
    IF mode = "o"
    THEN LET r == IRCDict_setitem(self.operdict, value, 1) IN
         [self |-> [self EXCEPT !.operdict = r.self], err |-> r.err]
    ELSE IF mode = "v"
    THEN LET r == IRCDict_setitem(self.voiceddict, value, 1) IN
         [self |-> [self EXCEPT !.voiceddict = r.self], err |-> r.err]
    ELSE [self |-> [self EXCEPT !.modes = MapPut(self.modes, mode, value)],
          err |-> FALSE]

\* clear_mode without its try / except KeyError
ClearModeRaises(self, mode, value) ==
    IF mode = "o"
    THEN LET r == IRCDict_delitem(self.operdict, value) IN
         [self |-> [self EXCEPT !.operdict = r.self], err |-> r.err]
    ELSE IF mode = "v"
    THEN LET r == IRCDict_delitem(self.voiceddict, value) IN
         [self |-> [self EXCEPT !.voiceddict = r.self], err |-> r.err]
    ELSE [self |-> [self EXCEPT !.modes = MapDel(self.modes, mode)],
          err |-> mode \notin DOMAIN self.modes]

\* clear_mode: the deletion's KeyError is caught, so err is always FALSE
Channel_clear_mode(self, mode, value) ==
    IF mode = "o"
    THEN [self |-> [self EXCEPT !.operdict = IRCDict_delitem(self.operdict, value).self],
          err |-> FALSE]
    ELSE IF mode = "v"
    THEN [self |-> [self EXCEPT !.voiceddict = IRCDict_delitem(self.voiceddict, value).self],
          err |-> FALSE]
    ELSE [self |-> [self EXCEPT !.modes = MapDel(self.modes, mode)], err |-> FALSE]

Channel_has_mode(self, mode) == mode \in DOMAIN self.modes

Channel_has_limit(self) == Channel_has_mode(self, "l")

(***************************************************************************)
(* irclib helpers used by the handlers                                     *)
(***************************************************************************)
\* nm_to_n: the nick of a "nick!user@host" source, i.e. what precedes the first "!"
nm_to_n(source) ==
    LET bangs == {i \in DOMAIN source : source[i] = 33} IN
    IF bangs = {} THEN source
    ELSE SubSeq(source, 1, (CHOOSE i \in bangs : \A j \in bangs : i <= j) - 1)

\* is_channel: the first character is one of "#&+!"
is_channel(target) == target /= <<>> /\ target[1] \in {35, 38, 43, 33}

(***************************************************************************)
(* class SingleServerIRCBot: the event handlers, as functions of           *)
(* self.channels (chs) that return the directory left behind and whether   *)
(* the handler raised KeyError                                             *)
(***************************************************************************)
\* self.channels[name].method(...): the Channel object is updated in place
StoreChannel(chs, name, c) ==
    [chs EXCEPT !.data[chs.canon_keys[irc_lower(name)]] = c]

\* self.channels[name].add_user(nick)
AddUserIn(chs, name, nick) ==
    LET g == IRCDict_getitem(chs, name) IN
    IF g.err THEN [self |-> chs, err |-> TRUE]
    ELSE LET r == Channel_add_user(g.val, nick) IN
         [self |-> StoreChannel(chs, name, r.self), err |-> r.err]

\* self.channels[name].remove_user(nick)
RemoveUserIn(chs, name, nick) ==
    LET g == IRCDict_getitem(chs, name) IN
    IF g.err THEN [self |-> chs, err |-> TRUE]
    ELSE LET r == Channel_remove_user(g.val, nick) IN
         [self |-> StoreChannel(chs, name, r.self), err |-> r.err]

\* self.channels[name].set_mode(mode, value)
SetModeIn(chs, name, mode, value) ==
    LET g == IRCDict_getitem(chs, name) IN
    IF g.err THEN [self |-> chs, err |-> TRUE]
    ELSE LET r == Channel_set_mode(g.val, mode, value) IN
         [self |-> StoreChannel(chs, name, r.self), err |-> r.err]

\* _on_join with a Channel created for any nick when the channel is missing
OnJoinCreates(chs, nickname, target, source) ==
    LET nick == nm_to_n(source)
        r == IF nick = nickname \/ ~IRCDict_has_key(chs, target)
             THEN IRCDict_setitem(chs, target, Channel_init)
             ELSE [self |-> chs, err |-> FALSE]
    IN IF r.err THEN r ELSE AddUserIn(r.self, target, nick)

_on_join(chs, nickname, target, source) ==
    LET nick == nm_to_n(source)
        r == IF nick = nickname
             THEN IRCDict_setitem(chs, target, Channel_init)
             ELSE [self |-> chs, err |-> FALSE]
    IN IF r.err THEN r ELSE AddUserIn(r.self, target, nick)

_on_kick(chs, nickname, target, nick) ==
    IF nick = nickname
    THEN IRCDict_delitem(chs, target)
    ELSE RemoveUserIn(chs, target, nick)

_on_part(chs, nickname, target, source) ==
    LET nick == nm_to_n(source) IN
    IF nick = nickname
    THEN IRCDict_delitem(chs, target)
    ELSE RemoveUserIn(chs, target, nick)

\* The loop of _on_mode over the decoded modes <<sign, letter, argument>>,
\* on the Channel object c
RECURSIVE ApplyModes(_, _)
ApplyModes(c, modes) ==
    IF modes = <<>> THEN [self |-> c, err |-> FALSE]
    ELSE LET mode == Head(modes)
             r == IF mode[1] = "+"
                  THEN Channel_set_mode(c, mode[2], mode[3])
                  ELSE Channel_clear_mode(c, mode[2], mode[3])
         IN IF r.err THEN r ELSE ApplyModes(r.self, Tail(modes))

_on_mode(chs, target, modes) ==
    IF is_channel(target)
    THEN LET g == IRCDict_getitem(chs, target) IN
         IF g.err THEN [self |-> chs, err |-> TRUE]
         ELSE LET r == ApplyModes(g.val, modes) IN
              [self |-> StoreChannel(chs, target, r.self), err |-> r.err]
    ELSE [self |-> chs, err |-> FALSE]

\* The body of _on_namreply's loop for one token of the nick list;
\* 64 is "@" and 43 is "+"
NamreplyToken(chs, name, token) ==
    LET prefixed == token /= <<>> /\ token[1] \in {64, 43}
        nick == IF prefixed THEN Tail(token) ELSE token
        r == IF prefixed
             THEN SetModeIn(chs, name, IF token[1] = 64 THEN "o" ELSE "v", nick)
             ELSE [self |-> chs, err |-> FALSE]
    IN IF r.err THEN r ELSE AddUserIn(r.self, name, nick)

RECURSIVE _on_namreply(_, _, _)
_on_namreply(chs, name, tokens) ==
    IF tokens = <<>> THEN [self |-> chs, err |-> FALSE]
    ELSE LET r == NamreplyToken(chs, name, Head(tokens)) IN
         IF r.err THEN r ELSE _on_namreply(r.self, name, Tail(tokens))

\* The loop of _on_nick over self.channels.values(), visited in the given order
\* (a sequence of the stored keys)
RECURSIVE NickLoop(_, _, _, _)
NickLoop(chs, order, before, after) ==
    IF order = <<>> THEN [self |-> chs, err |-> FALSE]
    ELSE LET k == Head(order)
             c == chs.data[k]
             r == IF Channel_has_user(c, before)
                  THEN Channel_change_nick(c, before, after)
                  ELSE [self |-> c, err |-> FALSE]
             next == [chs EXCEPT !.data[k] = r.self]
         IN IF r.err THEN [self |-> next, err |-> TRUE]
            ELSE NickLoop(next, Tail(order), before, after)

_on_nick(chs, order, source, target) ==
    NickLoop(chs, order, nm_to_n(source), target)

\* The loop of _on_quit over self.channels.values(), visited in the given order
RECURSIVE QuitLoop(_, _, _)
QuitLoop(chs, order, nick) ==
    IF order = <<>> THEN [self |-> chs, err |-> FALSE]
    ELSE LET k == Head(order)
             c == chs.data[k]
             r == IF Channel_has_user(c, nick)
                  THEN Channel_remove_user(c, nick)
                  ELSE [self |-> c, err |-> FALSE]
             next == [chs EXCEPT !.data[k] = r.self]
         IN IF r.err THEN [self |-> next, err |-> TRUE]
            ELSE QuitLoop(next, Tail(order), nick)

_on_quit(chs, order, source) == QuitLoop(chs, order, nm_to_n(source))

\* The orders in which a dict with these keys can be iterated: Python iterates
\* in insertion order, which the model does not keep, so every order is allowed
Orders(keys) ==
    {o \in [1..Cardinality(keys) -> keys] : \A k \in keys : \E i \in DOMAIN o : o[i] = k}

(***************************************************************************)
(* SpecDict: any sequence of set / delete / get on one IRCDict             *)
(***************************************************************************)
NoOp == [op |-> "init", args |-> <<>>, err |-> FALSE, rep |-> FALSE]

Op(name, args, err) ==
    [op |-> name, args |-> args, err |-> err,
     rep |-> (last.op = name /\ last.args = args)]

InitDict ==
    /\ d = IRCDict_init
    /\ ch = Channel_init
    /\ last = NoOp
    /\ nops = 0
    /\ channels = IRCDict_init
    /\ server_list = <<>>
    /\ reconnection_interval = 0
    /\ connected = FALSE
    /\ delayed = <<>>
    /\ started = FALSE
    /\ calls = <<>>

DictSet ==
    \E key \in DictKeys, item \in DictItems :
        LET r == IRCDict_setitem(d, key, item) IN
        /\ nops < MaxDictOps
        /\ d' = r.self
        /\ last' = Op("set", <<key, item>>, r.err)
        /\ nops' = nops + 1
        /\ UNCHANGED <<ch, botvars>>

DictDel ==
    \E key \in DictKeys :
        LET r == IRCDict_delitem(d, key) IN
        /\ nops < MaxDictOps
        /\ d' = r.self
        /\ last' = Op("del", <<key>>, r.err)
        /\ nops' = nops + 1
        /\ UNCHANGED <<ch, botvars>>

NextDict == DictSet \/ DictDel

SpecDict == InitDict /\ [][NextDict]_vars

(***************************************************************************)
(* SpecChan: any sequence of calls of the mutating methods of one Channel  *)
(***************************************************************************)
InitChan == InitDict

ChanStep(name, args, r) ==
    /\ nops < MaxChanOps
    /\ ch' = r.self
    /\ last' = Op(name, args, r.err)
    /\ nops' = nops + 1
    /\ UNCHANGED <<d, botvars>>

ChanAddUser ==
    \E nick \in ChanNicks :
        ChanStep("add_user", <<nick>>, Channel_add_user(ch, nick))

ChanRemoveUser ==
    \E nick \in ChanNicks :
        ChanStep("remove_user", <<nick>>, Channel_remove_user(ch, nick))

ChanChangeNick ==
    \E before \in ChanNicks, after \in ChanNicks :
        ChanStep("change_nick", <<before, after>>,
                 Channel_change_nick(ch, before, after))

ChanSetMode ==
    \E m \in ChanModes :
        ChanStep("set_mode", m, Channel_set_mode(ch, m[1], m[2]))

ChanClearMode ==
    \E m \in ChanModes :
        ChanStep("clear_mode", m, Channel_clear_mode(ch, m[1], m[2]))

NextChan ==
    ChanAddUser \/ ChanRemoveUser \/ ChanChangeNick \/ ChanSetMode \/ ChanClearMode

SpecChan == InitChan /\ [][NextChan]_vars

\* Only add_user and remove_user calls
NextMembers == ChanAddUser \/ ChanRemoveUser

SpecMembers == InitChan /\ [][NextMembers]_vars

(***************************************************************************)
(* Spec: the bot is started and handles join, kick, mode, namreply, nick,  *)
(* part and quit events while connected                                    *)
(***************************************************************************)
Init ==
    /\ d = IRCDict_init
    /\ ch = Channel_init
    /\ last = NoOp
    /\ nops = 0
    /\ channels = IRCDict_init
    /\ server_list = Servers
    /\ reconnection_interval = DefaultInterval
    /\ connected = FALSE
    /\ delayed = <<>>
    /\ started = FALSE
    /\ calls = <<>>

\* The bot as one record, for the methods that touch more than self.channels
Self ==
    [channels |-> channels, server_list |-> server_list,
     reconnection_interval |-> reconnection_interval, connected |-> connected,
     delayed |-> delayed, calls |-> <<>>]

SetSelf(self) ==
    /\ channels' = self.channels
    /\ server_list' = self.server_list
    /\ reconnection_interval' = self.reconnection_interval
    /\ connected' = self.connected
    /\ delayed' = self.delayed
    /\ calls' = self.calls

\* self.connection.execute_delayed(self.reconnection_interval, self._connected_checker)
execute_delayed(self) ==
    [self EXCEPT !.delayed = Append(@, self.reconnection_interval),
                 !.calls = Append(@, <<"execute_delayed", self.reconnection_interval>>)]

\* _connect: connect to server_list[0]; ok tells whether connect succeeds or
\* raises ServerConnectionError, which is caught
_connect(self, ok) ==
    LET server == self.server_list[1]
        password == IF Len(server) > 2 THEN <<server[3]>> ELSE <<>>
    IN [self EXCEPT !.calls = Append(@, <<"connect", server[1], server[2], password>>),
                    !.connected = ok]

\* _on_disconnect without `self.channels = IRCDict()`
OnDisconnectKeepsChannels(self) == execute_delayed(self)

\* _on_disconnect: a fresh IRCDict, then the reconnect check is scheduled
_on_disconnect(self) ==
    execute_delayed([self EXCEPT !.channels = IRCDict_init])

\* connection.disconnect(msg): closes the connection and dispatches the
\* disconnect event to _on_disconnect; nothing when not connected
connection_disconnect(self, msg) ==
    IF ~self.connected THEN self
    ELSE _on_disconnect([self EXCEPT !.connected = FALSE,
                                     !.calls = Append(@, <<"disconnect", msg>>)])

\* jump_server without `self.server_list.append(self.server_list.pop(0))`
JumpServerKeepsHead(self, msg, ok) ==
    _connect(IF self.connected THEN connection_disconnect(self, msg) ELSE self, ok)

\* jump_server with `self._connect()` moved before the rotation
JumpServerConnectsFirst(self, msg, ok) ==
    LET s1 == IF self.connected THEN connection_disconnect(self, msg) ELSE self
        s2 == _connect(s1, ok)
    IN [s2 EXCEPT !.server_list = Append(Tail(@), Head(@))]

\* jump_server: disconnect if connected, rotate server_list, _connect
jump_server(self, msg, ok) ==
    LET s1 == IF self.connected THEN connection_disconnect(self, msg) ELSE self
        s2 == [s1 EXCEPT !.server_list = Append(Tail(@), Head(@))]
    IN _connect(s2, ok)

\* _connected_checker without the test of is_connected()
CheckerAlwaysJumps(self, ok) ==
    jump_server(execute_delayed(self), "Changing servers", ok)

\* _connected_checker: if not connected, re-arm and jump_server
_connected_checker(self, ok) ==
    IF ~self.connected
    THEN jump_server(execute_delayed(self), "Changing servers", ok)
    ELSE self

\* start(): self._connect(), then the event loop
Start ==
    \E ok \in BOOLEAN :
        /\ ~started
        /\ started' = TRUE
        /\ SetSelf(_connect(Self, ok))
        /\ last' = Op("start", <<>>, FALSE)
        /\ UNCHANGED <<d, ch, nops>>

\* An event handled by one of the handlers on self.channels
Event(name, args, r) ==
    /\ connected
    /\ nops < MaxEvents
    /\ channels' = r.self
    /\ last' = Op(name, args, r.err)
    /\ nops' = nops + 1
    /\ calls' = <<>>
    /\ UNCHANGED <<d, ch, server_list, reconnection_interval, connected, delayed,
                   started>>

OnJoin ==
    \E target \in ChannelNames, nick \in Nicks :
        Event("join", <<target, nick>>,
              _on_join(channels, BotNick, target, Source(nick)))

OnKick ==
    \E target \in ChannelNames, nick \in Nicks :
        Event("kick", <<target, nick>>, _on_kick(channels, BotNick, target, nick))

OnPart ==
    \E target \in ChannelNames, nick \in Nicks :
        Event("part", <<target, nick>>,
              _on_part(channels, BotNick, target, Source(nick)))

OnMode ==
    \E target \in ChannelNames \cup {BotNick}, modes \in ModeLines :
        Event("mode", <<target, modes>>, _on_mode(channels, target, modes))

OnNamreply ==
    \E name \in ChannelNames, tokens \in NamesLines :
        Event("namreply", <<name, tokens>>, _on_namreply(channels, name, tokens))

OnNick ==
    \E before \in Nicks, after \in Nicks, order \in Orders(IRCDict_keys(channels)) :
        Event("nick", <<before, after>>,
              _on_nick(channels, order, Source(before), after))

OnQuit ==
    \E nick \in Nicks, order \in Orders(IRCDict_keys(channels)) :
        Event("quit", <<nick>>, _on_quit(channels, order, Source(nick)))

Next ==
    Start \/ OnJoin \/ OnKick \/ OnPart \/ OnMode \/ OnNamreply \/ OnNick \/ OnQuit

Spec == Init /\ [][Next]_vars

\* Sessions of the events that name a channel: join, kick, part, mode, namreply
NextChannelEvents == Start \/ OnJoin \/ OnKick \/ OnPart \/ OnMode \/ OnNamreply

SpecChannelEvents == Init /\ [][NextChannelEvents]_vars

\* Sessions of join, namreply, mode, nick and quit events only
NextQuit == Start \/ OnJoin \/ OnNamreply \/ OnMode \/ OnNick \/ OnQuit

SpecQuit == Init /\ [][NextQuit]_vars

(***************************************************************************)
(* SpecReconnect: the bot is started, joins channels, loses and ends       *)
(* connections, and the scheduled reconnect checks fire                    *)
(***************************************************************************)
\* The connection is closed (by the server, or by disconnect(msg)) and the
\* disconnect event is handled; args records how many channels there were
OnDisconnect ==
    /\ connected
    /\ Len(delayed) < MaxDelayed
    /\ SetSelf(connection_disconnect(Self, "Connection reset by peer"))
    /\ last' = Op("disconnect", <<IRCDict_len(channels)>>, FALSE)
    /\ UNCHANGED <<d, ch, nops, started>>

\* jump_server(msg) called by the application; args records whether it was
\* connected, and msg
JumpServer ==
    \E ok \in BOOLEAN, msg \in QuitMessages :
        /\ started
        /\ connected => Len(delayed) < MaxDelayed
        /\ SetSelf(jump_server(Self, msg, ok))
        /\ last' = Op("jump_server", <<connected, msg>>, FALSE)
        /\ UNCHANGED <<d, ch, nops, started>>

\* The oldest pending delayed call of _connected_checker fires
ConnectedChecker ==
    \E ok \in BOOLEAN :
        /\ delayed /= <<>>
        /\ SetSelf(_connected_checker([Self EXCEPT !.delayed = Tail(@)], ok))
        /\ last' = Op("_connected_checker", <<connected>>, FALSE)
        /\ UNCHANGED <<d, ch, nops, started>>

NextReconnect == Start \/ OnJoin \/ OnDisconnect \/ JumpServer \/ ConnectedChecker

SpecReconnect == Init /\ [][NextReconnect]_vars

\* The event loop runs a delayed call once its delay has passed: a pending
\* reconnect check eventually fires
SpecReconnectFair == SpecReconnect /\ WF_vars(ConnectedChecker)

(***************************************************************************)
(* SpecSession: SpecReconnect with every event handler, a session of at    *)
(* most MaxSessionEvents channel events                                    *)
(***************************************************************************)
SessionEvent ==
    /\ nops < MaxSessionEvents
    /\ (OnJoin \/ OnKick \/ OnPart \/ OnMode \/ OnNamreply \/ OnNick \/ OnQuit)

NextSession == Start \/ SessionEvent \/ OnDisconnect \/ JumpServer \/ ConnectedChecker

SpecSession == Init /\ [][NextSession]_vars

(***************************************************************************)
(* Claims about IRCDict (checked under SpecDict)                           *)
(***************************************************************************)
Equivalent(a, b) == irc_lower(a) = irc_lower(b)

\* C1: after set(a, v), in any reachable state, get(b) returns v for every b
\* that is casefold-equivalent to a.
C1_GetAfterSet ==
    last.op = "set" =>
        \A b \in DictKeys :
            Equivalent(last.args[1], b) =>
                LET g == IRCDict_getitem(d, b) IN ~g.err /\ g.val = last.args[2]

\* C2: after set(a, v), contains(b) is true for every b that is casefold-
\* equivalent to a, and contains(b) is false when no equivalent key is stored.
C2_ContainsByEquivalence ==
    /\ (last.op = "set" /\ ~last.err) =>
           \A b \in DictKeys : Equivalent(last.args[1], b) => IRCDict_contains(d, b)
    /\ \A b \in DictKeys :
           (\A k \in IRCDict_keys(d) : ~Equivalent(k, b)) => ~IRCDict_contains(d, b)

\* C3: after any sequence of set and delete, the map holds at most one entry
\* per casefold equivalence class.
C3_OneEntryPerClass ==
    \A k1 \in IRCDict_keys(d), k2 \in IRCDict_keys(d) : Equivalent(k1, k2) => k1 = k2

(***************************************************************************)
(* Claims about Channel (checked under SpecChan and SpecMembers)           *)
(***************************************************************************)
\* C4: in every Channel reachable by add_user, remove_user, change_nick,
\* set_mode and clear_mode calls, every operator and every voiced nick is a
\* member (read by equivalence: some stored member folds to the same nick).
C4_OpersVoicedAreMembers ==
    \A n \in Channel_opers(ch) \cup Channel_voiced(ch) :
        \E m \in Channel_users(ch) : Equivalent(n, m)

\* C5: change_nick(before, after) on a channel where before is a member
\* completes, makes after a member, operator exactly when before was one,
\* voiced exactly when before was, and before is no longer a member unless
\* after is casefold-equivalent to it.
C5_RenamePreservesStatus ==
    [][(last'.op = "change_nick" /\ nops' = nops + 1
            /\ Channel_has_user(ch, last'.args[1])) =>
          /\ ~last'.err
          /\ Channel_has_user(ch', last'.args[2])
          /\ Channel_is_oper(ch', last'.args[2]) <=> Channel_is_oper(ch, last'.args[1])
          /\ Channel_is_voiced(ch', last'.args[2]) <=> Channel_is_voiced(ch, last'.args[1])
          /\ ~Equivalent(last'.args[1], last'.args[2]) =>
                 ~Channel_has_user(ch', last'.args[1])]_vars

\* C6: after any sequence of add_user and remove_user calls, remove_user(nick)
\* does not raise, and calling it once more does not raise and leaves the
\* Channel as it is.
C6_RemoveUserIdempotent ==
    last.op = "remove_user" =>
        LET again == Channel_remove_user(ch, last.args[1]) IN
        ~last.err /\ ~again.err /\ again.self = ch

(***************************************************************************)
(* Claims about the event handlers (checked under Spec)                    *)
(***************************************************************************)
\* C7: handling the same namreply event a second time in a row leaves
\* self.channels (every channel's members, operators, voiced and modes) as the
\* first handling left it.
C7_NamreplyIdempotent ==
    [][(last.op = "namreply" /\ last'.op = "namreply" /\ last'.args = last.args
            /\ nops' = nops + 1) =>
          channels' = channels]_vars

\* C7 witness: a namreply naming nicks of two spellings has been handled twice
\* in a row without error for a channel of the directory.
C7_Witness ==
    /\ last.op = "namreply" /\ last.rep /\ ~last.err
    /\ Len(last.args[2]) > 1
    /\ IRCDict_has_key(channels, last.args[1])
    /\ \E c \in IRCDict_keys(channels) :
           Cardinality(Channel_users(channels.data[c])) > 1

\* C8: a join, part or kick whose nick is casefold-equivalent to the bot's own
\* nickname takes the transition for the bot itself (the directory is left as
\* the handler leaves it when the nick is the bot's nickname), also when the
\* nick is spelled differently.
C8_SelfByCasefolding ==
    [][(nops' = nops + 1 /\ last'.op \in {"join", "part", "kick"}
            /\ Equivalent(last'.args[2], BotNick)) =>
          channels' =
              CASE last'.op = "join" ->
                       _on_join(channels, last'.args[2], last'.args[1],
                                Source(last'.args[2])).self
                [] last'.op = "part" ->
                       _on_part(channels, last'.args[2], last'.args[1],
                                Source(last'.args[2])).self
                [] last'.op = "kick" ->
                       _on_kick(channels, last'.args[2], last'.args[1],
                                last'.args[2]).self]_vars

\* C9: after a kick of the bot's own nick or a part by the bot for channel c,
\* no key equivalent to c is enumerated in the directory, looking c up fails,
\* and every other channel is as it was.
C9_SelfLeaveRemovesChannel ==
    [][(nops' = nops + 1 /\ last'.op \in {"part", "kick"}
            /\ last'.args[2] = BotNick) =>
          /\ \A k \in IRCDict_keys(channels') : ~Equivalent(k, last'.args[1])
          /\ IRCDict_getitem(channels', last'.args[1]).err
          /\ \A k \in IRCDict_keys(channels) :
                 ~Equivalent(k, last'.args[1]) =>
                     /\ k \in IRCDict_keys(channels')
                     /\ channels'.data[k] = channels.data[k]]_vars

(***************************************************************************)
(* Claims about disconnects and reconnects (checked under SpecReconnect)   *)
(***************************************************************************)
\* C10: whenever a disconnect event is handled (the connection is lost, or
\* jump_server disconnects a connected bot), self.channels becomes an empty
\* directory and one reconnect check is scheduled after reconnection_interval;
\* the disconnect event alone leaves server_list as it is.
C10_DisconnectResets ==
    [][/\ last'.op = "disconnect" =>
              /\ channels' = IRCDict_init
              /\ delayed' = Append(delayed, reconnection_interval)
              /\ calls' = << <<"disconnect", "Connection reset by peer">>,
                            <<"execute_delayed", reconnection_interval>> >>
              /\ server_list' = server_list
       /\ (last'.op = "jump_server" /\ last'.args[1]) =>
              /\ channels' = IRCDict_init
              /\ delayed' = Append(delayed, reconnection_interval)]_vars

\* C10 witness: a disconnect event was handled when the directory held
\* channels, an earlier reconnect check was still pending and server_list had
\* been rotated before.
C10_Witness ==
    /\ last.op = "disconnect" /\ last.args[1] > 0
    /\ channels = IRCDict_init
    /\ delayed = <<reconnection_interval, reconnection_interval>>
    /\ server_list /= Servers

(***************************************************************************)
(* Claims about the server rotation and the reconnect timer                *)
(***************************************************************************)
\* The list moved by one position: the head goes to the tail
Rotate(list) == Append(Tail(list), Head(list))

\* list is a cyclic rotation of the configured server list
IsRotation(list) ==
    list \in {Servers, Rotate(Servers), Rotate(Rotate(Servers))}

\* C11: server_list changes only in a step that runs jump_server (called by
\* the application, or by the reconnect check of a disconnected bot); each
\* jump_server moves the head to the tail, so the new head is the previous
\* second element; the list is always a cyclic rotation of the configured
\* list; start(), failed connects, disconnects and the event handlers leave it
\* as it is.
C11_RotationOnlyByJumpServer ==
    [][LET jumps == \/ last'.op = "jump_server"
                    \/ last'.op = "_connected_checker" /\ ~connected
       IN /\ jumps => /\ server_list' = Rotate(server_list)
                      /\ server_list'[1] = server_list[2]
          /\ ~jumps => server_list' = server_list
          /\ IsRotation(server_list')
          /\ Len(server_list') = Len(Servers)]_vars

\* C11 witness: jump_server has rotated the list twice and the last jump's
\* connect failed, in a session that has handled channel events.
C11_Witness ==
    /\ last.op \in {"jump_server", "_connected_checker"}
    /\ server_list = Rotate(Rotate(Servers))
    /\ ~connected
    /\ nops > 0

\* What _connect passes to connect for the server descriptor at the head
ConnectCall(server) ==
    <<"connect", server[1], server[2],
      IF Len(server) > 2 THEN <<server[3]>> ELSE <<>> >>

\* C12: a jump_server(msg) call on a connected bot first disconnects with msg
\* as the quit message (the disconnect event empties the directory and
\* schedules a check); connected or not, it then rotates server_list by one
\* and last makes exactly one connect attempt, to the new head, which is not
\* the server it was on.
C12_JumpServerOrder ==
    [][last'.op = "jump_server" =>
          LET was == last'.args[1]
              msg == last'.args[2]
          IN /\ was = connected
             /\ server_list' = Rotate(server_list)
             /\ calls' =
                    (IF was
                     THEN << <<"disconnect", msg>>,
                             <<"execute_delayed", reconnection_interval>> >>
                     ELSE <<>>)
                        \o <<ConnectCall(server_list'[1])>>
             /\ server_list'[1] = server_list[2]
             /\ server_list'[1] /= server_list[1]
             /\ was => channels' = IRCDict_init
             /\ ~was => channels' = channels /\ delayed' = delayed]_vars

\* C12 witness: jump_server("Bye") was called on a connected bot with channels
\* in its directory, and connected to the second configured server, which
\* has a password.
C12_Witness ==
    /\ last.op = "jump_server" /\ last.args = <<TRUE, "Bye">>
    /\ calls = << <<"disconnect", "Bye">>,
                  <<"execute_delayed", DefaultInterval>>,
                  <<"connect", "irc2", 6667, <<"secret">>>> >>
    /\ connected
    /\ nops > 0

\* The last step ended with a connect attempt that raised ServerConnectionError
FailedAttempt ==
    /\ started /\ ~connected
    /\ calls /= <<>> /\ calls[Len(calls)][1] = "connect"

\* C13: after every failed connect attempt (of start(), of jump_server, of the
\* reconnect check) the bot is disconnected with a reconnect check pending,
\* and, the pending checks firing fairly, another connect attempt follows
\* (the attempt of a disconnected bot is that of jump_server, which moves
\* server_list on).
C13_FailedConnectRetried ==
    /\ [](FailedAttempt => delayed /= <<>>)
    /\ \A list \in {Servers, Rotate(Servers), Rotate(Rotate(Servers))} :
           (FailedAttempt /\ server_list = list) ~> (server_list /= list)

(***************************************************************************)
(* Claims about modes, quits and absent channels                           *)
(***************************************************************************)
\* The mode is not set on the Channel: no operator (voiced nick) is casefold-
\* equivalent to value, or the letter is not in modes
ModeNotSet(self, mode, value) ==
    IF mode = "o" THEN \A k \in Channel_opers(self) : ~Equivalent(k, value)
    ELSE IF mode = "v" THEN \A k \in Channel_voiced(self) : ~Equivalent(k, value)
    ELSE ~Channel_has_mode(self, mode)

\* C14: clear_mode(letter, argument) for a mode that is not set (no operator
\* or voiced nick equivalent to the argument of "o" / "v", any other letter
\* absent from modes) raises no error and leaves the Channel as it is; after
\* clear_mode("l", None) on a channel without a limit, has_limit() is false.
C14_ClearUnsetModeNoOp ==
    [][(last'.op = "clear_mode" /\ nops' = nops + 1
            /\ ModeNotSet(ch, last'.args[1], last'.args[2])) =>
          /\ ~last'.err
          /\ ch' = ch
          /\ last'.args[1] = "l" => ~Channel_has_limit(ch')]_vars

\* C14 witness: the same clear_mode("o", nick) was called twice in a row, on
\* a channel that has members and other operators and where no operator is
\* equivalent to nick.
C14_Witness ==
    /\ last.op = "clear_mode" /\ last.rep /\ last.args[1] = "o"
    /\ ModeNotSet(ch, "o", last.args[2])
    /\ Channel_opers(ch) /= {}

\* C14 witness for the limit: clear_mode("l", None) was called on a channel
\* without a limit that has another mode set.
C14_WitnessLimit ==
    /\ last.op = "clear_mode" /\ last.rep /\ last.args = <<"l", None>>
    /\ ~Channel_has_limit(ch)
    /\ Channel_has_mode(ch, "m")

\* Some spelling of nick is a member, an operator or voiced in the Channel
ChannelContains(c, nick) ==
    \E k \in Channel_users(c) \cup Channel_opers(c) \cup Channel_voiced(c) :
        Equivalent(k, nick)

\* C15: in a session of join, namreply, mode and nick events, handling a quit
\* of nick n completes without error, afterwards no channel of the directory
\* has a spelling of n as member, operator or voiced, and the channels that
\* did not contain n are as they were.
C15_QuitRemovesEverywhere ==
    [][(last'.op = "quit" /\ nops' = nops + 1) =>
          /\ ~last'.err
          /\ IRCDict_keys(channels') = IRCDict_keys(channels)
          /\ \A k \in IRCDict_keys(channels') :
                 ~ChannelContains(channels'.data[k], last'.args[1])
          /\ \A k \in IRCDict_keys(channels) :
                 ~ChannelContains(channels.data[k], last'.args[1]) =>
                     channels'.data[k] = channels.data[k]]_vars

\* C16: a reconnect check that fires while the bot is connected changes nothing
\* (no rotation, no disconnect, no connect, no new check, directory as it
\* was); one that fires while it is disconnected schedules the next check
\* after reconnection_interval and runs jump_server once: one rotation and one
\* connect attempt, to the new head.
C16_StaleCheckNoOp ==
    [][last'.op = "_connected_checker" =>
          /\ last'.args[1] = connected
          /\ channels' = channels
          /\ IF connected
             THEN /\ server_list' = server_list
                  /\ connected'
                  /\ calls' = <<>>
                  /\ delayed' = Tail(delayed)
             ELSE /\ server_list' = Rotate(server_list)
                  /\ calls' = << <<"execute_delayed", reconnection_interval>>,
                                 ConnectCall(server_list'[1]) >>
                  /\ delayed' = Append(Tail(delayed), reconnection_interval)]_vars

\* C16 witness: a check fired while the bot was connected again, on another
\* server and with channels in its directory.
C16_Witness ==
    /\ last.op = "_connected_checker" /\ last.args[1]
    /\ connected
    /\ IRCDict_len(channels) > 0
    /\ server_list /= Servers

\* The Channel after one delta <<sign, letter, argument>>
ApplyDelta(c, delta) ==
    IF delta[1] = "+" THEN Channel_set_mode(c, delta[2], delta[3]).self
    ELSE Channel_clear_mode(c, delta[2], delta[3]).self

\* The left-to-right fold of set_mode / clear_mode over the deltas
RECURSIVE FoldModes(_, _)
FoldModes(c, deltas) ==
    IF deltas = <<>> THEN c
    ELSE ApplyDelta(FoldModes(c, SubSeq(deltas, 1, Len(deltas) - 1)),
                    deltas[Len(deltas)])

\* C17: a mode event for a channel that can be looked up in the directory
\* completes and leaves that Channel equal to the left-to-right fold of
\* set_mode ("+") and clear_mode ("-") over its deltas, every other channel
\* as it was; when the event sets and clears the same mode, the later delta
\* decides; a mode event whose target is not a channel changes nothing.
C17_ModeDeltasInOrder ==
    [][(last'.op = "mode" /\ nops' = nops + 1) =>
          LET target == last'.args[1]
              deltas == last'.args[2]
              g == IRCDict_getitem(channels, target)
              after == IRCDict_getitem(channels', target)
              final == deltas[Len(deltas)]
          IN /\ ~is_channel(target) => ~last'.err /\ channels' = channels
             /\ (is_channel(target) /\ ~g.err) =>
                    /\ ~last'.err
                    /\ ~after.err
                    /\ after.val = FoldModes(g.val, deltas)
                    /\ channels' = StoreChannel(channels, target, after.val)
                    /\ (Len(deltas) = 2 /\ deltas[1][2] = deltas[2][2]
                            /\ deltas[1][3] = deltas[2][3]
                            /\ deltas[1][1] /= deltas[2][1]) =>
                           (final[1] = "+") <=>
                               IF final[2] = "o"
                               THEN Channel_is_oper(after.val, final[3])
                               ELSE Channel_is_voiced(after.val, final[3])]_vars

\* No spelling of the channel name is stored in the directory
Absent(chs, name) == \A k \in IRCDict_keys(chs) : ~Equivalent(k, name)

\* C18: a join by another user, a part, a kick, a mode event with a channel
\* target or a namreply with at least one nick, for a channel no spelling of
\* which is in the directory, raises KeyError out of the handler and leaves
\* the directory and the rest of the bot's state as they were: no channel is
\* created.
C18_AbsentChannelFails ==
    [][(nops' = nops + 1
            /\ last'.op \in {"join", "part", "kick", "mode", "namreply"}
            /\ Absent(channels, last'.args[1])
            /\ (last'.op = "join" => ~Equivalent(last'.args[2], BotNick))
            /\ (last'.op = "mode" => is_channel(last'.args[1]))
            /\ (last'.op = "namreply" => last'.args[2] /= <<>>)) =>
          /\ last'.err
          /\ channels' = channels
          /\ UNCHANGED <<server_list, reconnection_interval, connected, delayed,
                         started>>]_vars

\* C18 witness: a namreply for a channel that is not in the directory raised,
\* while the directory holds another channel with several members.
C18_Witness ==
    /\ last.op = "namreply" /\ last.err
    /\ Absent(channels, last.args[1])
    /\ \E k \in IRCDict_keys(channels) :
           Cardinality(Channel_users(channels.data[k])) > 1

(***************************************************************************)
(* Claims about the two tables of IRCDict and the pending checks           *)
(***************************************************************************)
\* C19: after any sequence of set and delete with keys of any spelling, every
\* key that keys() reports can be looked up and deleted without KeyError, and
\* every canon_keys entry points to a key that is stored.
C19_TablesConsistent ==
    /\ \A k \in IRCDict_keys(d) :
           ~IRCDict_getitem(d, k).err /\ ~IRCDict_delitem(d, k).err
    /\ \A ck \in DOMAIN d.canon_keys : d.canon_keys[ck] \in DOMAIN d.data

\* C20: over every interleaving of disconnect events, firing checks,
\* successful and failed connects and jump_server calls, at most one reconnect
\* check is pending: a disconnect event replaces a check that is already
\* scheduled instead of adding a second one.
C20_OneCheckPending == Len(delayed) <= 1

====
